---- MODULE Spec2Model ----
(***************************************************************************)
(* TFSage: batch regulatory-potential (RP) computation over a process pool *)
(* (rp_model/compute_batch.py, rp_model/common.py), the peak synthesis and *)
(* standardization helpers (generation/helpers.py, synthesize.py), the     *)
(* test-sample generator (generation/test_samples.py), the temporary       *)
(* resources and input validation of the library's entry points, and the   *)
(* decay kernel.  Specifications: Spec, SpecGen, SpecSamples, SpecCalls,   *)
(* SpecKernel.                                                             *)
(***************************************************************************)
EXTENDS Integers, Sequences, FiniteSets, TLC

VARIABLES
    bed_files,            \* compute_batch argument: the list of sample files
    decay,                \* compute_batch argument: the decay value
    pc,                   \* position of the thread that called compute_batch
    results,              \* compute_batch.results: one slot per input file
    futures,              \* the futures dict: index -> state of the future for it
    call_queue,           \* work items submitted and not yet taken by a worker
    global_gene_loc_set,  \* per worker process: the module global
    worker,               \* per worker process: what it is doing
    init_calls,           \* per worker process: number of initializer calls
    submits,              \* per input index: number of executor.submit calls
    yielded,              \* futures already yielded by as_completed
    returned,             \* what compute_batch handed back to its caller
    error,                \* the exception compute_batch ended with
    reordered,            \* history: some task finished before an earlier-submitted one
    file_paths,           \* synthesize argument: the interval files
    weights,              \* synthesize argument: None or one weight per file
    merge_distance,       \* synthesize argument
    report_original_peaks,\* synthesize argument
    gen_pc,               \* position in the synthesize -> standardize pipeline
    df,                   \* the table synthesize returned
    weighted,             \* standardize argument
    width,                \* standardize argument (0: no width)
    std,                  \* the table standardize returned
    query_file,           \* generate_test_samples argument: the query intervals
    target_file,          \* generate_test_samples argument: the target intervals
    sample_width,         \* generate_test_samples argument (0: no width)
    positive_samples,     \* what generate_positive_samples returned
    negative_samples,     \* what generate_negative_samples returned
    samples_pc,           \* position in generate_test_samples
    call,                 \* the library function being called, with its arguments
    call_pc,              \* the step of that function to run next (0: no call)
    tmp_live,             \* temporary files and directories that exist on disk
    tmp_created,          \* history: every temporary resource the call created
    work_done,            \* history: the costly steps the call has carried out
    call_result,          \* how the call ended
    kernel                \* one evaluation of the decay kernel: its inputs and values

batch_vars == <<bed_files, decay, pc, results, futures, call_queue,
                global_gene_loc_set, worker, init_calls, submits, yielded,
                returned, error, reordered>>

gen_vars == <<file_paths, weights, merge_distance, report_original_peaks,
              gen_pc, df, weighted, width, std>>

samples_vars == <<query_file, target_file, sample_width, positive_samples,
                  negative_samples, samples_pc>>

call_vars == <<call, call_pc, tmp_live, tmp_created, work_done, call_result>>

vars == <<batch_vars, gen_vars, samples_vars, call_vars, kernel>>

----------------------------------------------------------------------------
(* Bounds of the model *)

MaxFiles == 3
MaxWorkers == 2

Workers == 1..MaxWorkers

----------------------------------------------------------------------------
(* Values *)

None == [tag |-> "None"]
Ok(v) == [tag |-> "ok", val |-> v]
Raise(e) == [tag |-> "raise", val |-> e]

\* the test-sample generator is not running
SamplesIdle ==
    /\ query_file = <<>>
    /\ target_file = <<>>
    /\ sample_width = 0
    /\ positive_samples = None
    /\ negative_samples = None
    /\ samples_pc = "idle"

\* no library function is being called
CallsIdle ==
    /\ call = None
    /\ call_pc = 0
    /\ tmp_live = {}
    /\ tmp_created = {}
    /\ work_done = {}
    /\ call_result = None

\* the decay kernel is not being evaluated
KernelIdle == kernel = None

RECURSIVE SumSeq(_)
SumSeq(s) == IF s = <<>> THEN 0 ELSE Head(s) + SumSeq(Tail(s))

RECURSIVE SumSet(_, _)
SumSet(S, f) ==
    IF S = {} THEN 0
    ELSE LET x == CHOOSE y \in S : TRUE IN f[x] + SumSet(S \ {x}, f)

Abs(x) == IF x < 0 THEN -x ELSE x

RECURSIVE Pow(_, _)
Pow(b, e) == IF e <= 0 THEN 1 ELSE b * Pow(b, e - 1)

Pow2(n) == Pow(2, n)

----------------------------------------------------------------------------
(* Sample files on disk.  A file has a size in bytes and the interval      *)
(* records a BED reader finds in it; "header" has bytes but no interval    *)
(* record (a track/comment line or a lone newline), "missing" is a path    *)
(* that does not exist.                                                    *)

SampleFiles == {"empty", "header", "peaksA", "peaksB", "missing"}

FileExists(f) == f # "missing"

FileSize(f) == IF f = "empty" THEN 0 ELSE 1

\* midpoints of the intervals of a file
FilePeaks(f) ==
    CASE f = "peaksA" -> {1}
      [] f = "peaksB" -> {2, 5}
      [] OTHER -> {}

\* The gene locus set: a RegionSet of TSS positions bound to a genome.
GeneLocSet == [genome |-> "hg38", regions |-> <<0, 4>>]

Decays == {2}

----------------------------------------------------------------------------
(* rp_model/common.py *)

file_is_empty_inverted(f) ==
    IF ~FileExists(f) THEN Raise("OSError") ELSE Ok(FileSize(f) # 0)

\* file_is_empty: os.path.getsize(file) == 0; getsize raises on a missing path
file_is_empty(f) ==
    IF ~FileExists(f) THEN Raise("OSError") ELSE Ok(FileSize(f) = 0)

\* The decay kernel of the region-to-gene map: 2 ^ (-dist / d), halving with
\* every d bases, as a fixed-point number of Scale units (Scale stands for
\* 1.0), rounded down; contributions beyond Window bases are left out.
Scale == 64
Window == 3

PotentialStep(dist, d) == Scale \div Pow2(dist \div d)

Potential(dist, d) ==
    LET q == dist \div d
        lo == Scale \div Pow2(q + 1)
        hi == Scale \div Pow2(q)
    IN CHOOSE v \in lo..hi :
           /\ Pow(v, d) * Pow2(dist) <= Pow(Scale, d)
           /\ Pow(v + 1, d) * Pow2(dist) > Pow(Scale, d)

\* the kernel at every distance inside the window, for the decays in use
KernelValues == [d \in Decays |-> [x \in 0..Window |-> Potential(x, d)]]

\* _make_basic_rp_map(...).sum(axis=1): one score per locus, in locus order
RpVector(peaks, gls, d) ==
    [g \in 1..Len(gls.regions) |->
        LET near == {p \in peaks : Abs(p - gls.regions[g]) <= Window}
        IN SumSet(near, [p \in near |-> KernelValues[d][Abs(p - gls.regions[g])]])]

Zeros(n) == [g \in 1..n |-> 0]

\* What the region reader and region-set constructor of the library can do
\* with a file that has bytes but no interval record: the repository does not
\* decide it, so every outcome the library may produce is allowed.
NoRecordOutcomes(gls) == {Raise("ParseError"), Ok(Zeros(Len(gls.regions)))}

\* compute_helper: the set of outcomes of one call.  A locus set of None has
\* no .regions and no .genome, whichever branch reads it.
compute_helper(f, gls, d) ==
    LET e == file_is_empty(f) IN
    IF e.tag = "raise" THEN {e}
    ELSE IF gls = None THEN {Raise("AttributeError")}
    ELSE IF e.val THEN {Ok(Zeros(Len(gls.regions)))}
    ELSE IF FilePeaks(f) = {} THEN NoRecordOutcomes(gls)
    ELSE {Ok(RpVector(FilePeaks(f), gls, d))}

\* extract_region_names: the row labels, in locus-set order
extract_region_names(gls) == [g \in 1..Len(gls.regions) |-> g]

----------------------------------------------------------------------------
(* rp_model/compute_batch.py *)

N == Len(bed_files)

initialize_worker_local(gls) == None

\* initialize_worker: the value the worker's global holds afterwards
initialize_worker(gls) == gls

TaskPayloadWithLoci(f, d) ==
    [bed_file |-> f, decay |-> d, gene_loc_set |-> GeneLocSet]

\* the arguments of one submitted call: executor.submit(process_bed_file, bed_file, decay)
TaskPayload(f, d) == [bed_file |-> f, decay |-> d]

\* process_bed_file, run in worker w
process_bed_file(w, task) ==
    compute_helper(task.bed_file, global_gene_loc_set[w], task.decay)

SlotOfArrival(i, n) == n + 1

\* futures[future]: the slot a yielded future writes; n futures were yielded before
SlotOf(i, n) == i

AfterResultSwallowed(outcome) == "collect"

\* future.result(): a raised task error leaves the loop, a value stays in it
AfterResult(outcome) == IF outcome.tag = "raise" THEN "exit_raise" ELSE "collect"

LoopDoneEarly == yielded # {}

\* as_completed is exhausted once every submitted future was yielded
LoopDone == yielded = DOMAIN futures

AllFinished == \A i \in DOMAIN futures : futures[i].state = "finished"

\* np.stack(results).T with the gene index: fails on no arrays and on a None slot
StackResults(res) ==
    IF Len(res) = 0 \/ \E i \in 1..Len(res) : res[i] = None
    THEN Raise("ValueError")
    ELSE Ok([g \in DOMAIN extract_region_names(GeneLocSet) |->
                [i \in 1..Len(res) |-> res[i][g]]])

Init ==
    /\ bed_files \in UNION {[1..n -> SampleFiles] : n \in 0..MaxFiles}
    /\ decay \in Decays
    /\ pc = "start"
    /\ results = <<>>
    /\ futures = <<>>
    /\ call_queue = <<>>
    /\ global_gene_loc_set = [w \in Workers |-> None]
    /\ worker = [w \in Workers |-> [state |-> "down", id |-> 0]]
    /\ init_calls = [w \in Workers |-> 0]
    /\ submits = [i \in 1..N |-> 0]
    /\ yielded = {}
    /\ returned = None
    /\ error = None
    /\ reordered = FALSE
    /\ file_paths = <<>>
    /\ weights = None
    /\ merge_distance = 0
    /\ report_original_peaks = FALSE
    /\ gen_pc = "idle"
    /\ df = None
    /\ weighted = FALSE
    /\ width = 0
    /\ std = None
    /\ SamplesIdle
    /\ CallsIdle
    /\ KernelIdle

\* results = [None] * len(bed_files); the executor is created
CreatePool ==
    /\ pc = "start"
    /\ results' = [i \in 1..N |-> None]
    /\ pc' = IF N = 0 THEN "collect" ELSE "submit"
    /\ UNCHANGED <<bed_files, decay, futures, call_queue, global_gene_loc_set,
                   worker, init_calls, submits, yielded, returned, error, reordered, gen_vars, samples_vars, call_vars, kernel>>

\* one iteration of the dict comprehension: submit the next file
Submit ==
    /\ pc = "submit"
    /\ LET k == Len(futures) + 1 IN
        /\ futures' = Append(futures, [state |-> "pending", outcome |-> None])
        /\ call_queue' = Append(call_queue,
                                [id |-> k, task |-> TaskPayload(bed_files[k], decay)])
        /\ submits' = [submits EXCEPT ![k] = @ + 1]
        /\ pc' = IF k = N THEN "collect" ELSE "submit"
    /\ UNCHANGED <<bed_files, decay, results, global_gene_loc_set, worker,
                   init_calls, yielded, returned, error, reordered, gen_vars, samples_vars, call_vars, kernel>>

\* a worker process of the pool starts and runs its initializer
WorkerStart(w) ==
    /\ pc \in {"submit", "collect", "exit_ok", "exit_raise"}
    /\ Len(futures) > 0
    /\ worker[w].state = "down"
    /\ global_gene_loc_set' =
          [global_gene_loc_set EXCEPT ![w] = initialize_worker(GeneLocSet)]
    /\ init_calls' = [init_calls EXCEPT ![w] = @ + 1]
    /\ worker' = [worker EXCEPT ![w] = [state |-> "idle", id |-> 0]]
    /\ UNCHANGED <<bed_files, decay, pc, results, futures, call_queue, submits,
                   yielded, returned, error, reordered, gen_vars, samples_vars, call_vars, kernel>>

\* an idle worker takes the oldest work item
WorkerTake(w) ==
    /\ worker[w].state = "idle"
    /\ call_queue # <<>>
    /\ LET item == Head(call_queue) IN
        /\ worker' = [worker EXCEPT ![w] = [state |-> "busy", id |-> item.id,
                                            task |-> item.task]]
        /\ futures' = [futures EXCEPT ![item.id].state = "running"]
    /\ call_queue' = Tail(call_queue)
    /\ UNCHANGED <<bed_files, decay, pc, results, global_gene_loc_set, init_calls,
                   submits, yielded, returned, error, reordered, gen_vars, samples_vars, call_vars, kernel>>

\* the worker runs process_bed_file and the future gets its result or exception
WorkerFinish(w) ==
    /\ worker[w].state = "busy"
    /\ \E outcome \in process_bed_file(w, worker[w].task) :
          futures' = [futures EXCEPT ![worker[w].id] =
                         [state |-> "finished", outcome |-> outcome]]
    /\ worker' = [worker EXCEPT ![w] = [state |-> "idle", id |-> 0]]
    /\ reordered' = (reordered \/ \E j \in 1..(worker[w].id - 1) :
                                     futures[j].state # "finished")
    /\ UNCHANGED <<bed_files, decay, pc, results, call_queue, global_gene_loc_set,
                   init_calls, submits, yielded, returned, error, gen_vars, samples_vars, call_vars, kernel>>

\* one iteration of the as_completed loop: any finished future not yet yielded
Collect ==
    /\ pc = "collect"
    /\ \E i \in DOMAIN futures \ yielded :
        /\ futures[i].state = "finished"
        /\ yielded' = yielded \cup {i}
        /\ pc' = AfterResult(futures[i].outcome)
        /\ IF futures[i].outcome.tag = "raise"
           THEN /\ error' = IF pc' = "exit_raise" THEN futures[i].outcome ELSE error
                /\ UNCHANGED results
           ELSE /\ results' = [results EXCEPT
                                  ![SlotOf(i, Cardinality(yielded))] =
                                      futures[i].outcome.val]
                /\ UNCHANGED error
    /\ UNCHANGED <<bed_files, decay, futures, call_queue, global_gene_loc_set,
                   worker, init_calls, submits, returned, reordered, gen_vars, samples_vars, call_vars, kernel>>

\* the loop ends normally
LoopEnd ==
    /\ pc = "collect"
    /\ LoopDone
    /\ pc' = "exit_ok"
    /\ UNCHANGED <<bed_files, decay, results, futures, call_queue,
                   global_gene_loc_set, worker, init_calls, submits, yielded,
                   returned, error, reordered, gen_vars, samples_vars, call_vars, kernel>>

\* leaving the with block: shutdown(wait=True) returns once every submitted
\* call has run and the workers have exited; a pending exception then propagates
Shutdown ==
    /\ pc \in {"exit_ok", "exit_raise"}
    /\ AllFinished
    /\ worker' = [w \in Workers |->
                    IF worker[w].state = "down" THEN worker[w]
                    ELSE [state |-> "exited", id |-> 0]]
    /\ pc' = IF pc = "exit_ok" THEN "stack" ELSE "raised"
    /\ UNCHANGED <<bed_files, decay, results, futures, call_queue,
                   global_gene_loc_set, init_calls, submits, yielded, returned,
                   error, reordered, gen_vars, samples_vars, call_vars, kernel>>

\* rp_matrix = np.stack(results).T; return the DataFrame
Stack ==
    /\ pc = "stack"
    /\ LET m == StackResults(results) IN
        IF m.tag = "raise"
        THEN /\ pc' = "raised"
             /\ error' = m
             /\ UNCHANGED returned
        ELSE /\ pc' = "returned"
             /\ returned' = m.val
             /\ UNCHANGED error
    /\ UNCHANGED <<bed_files, decay, results, futures, call_queue,
                   global_gene_loc_set, worker, init_calls, submits, yielded, reordered, gen_vars, samples_vars, call_vars, kernel>>

Next ==
    \/ CreatePool
    \/ Submit
    \/ \E w \in Workers : WorkerStart(w)
    \/ \E w \in Workers : WorkerTake(w)
    \/ \E w \in Workers : WorkerFinish(w)
    \/ Collect
    \/ LoopEnd
    \/ Shutdown
    \/ Stack

Spec == Init /\ [][Next]_vars

----------------------------------------------------------------------------
(* Properties of compute_batch *)

ColumnOf(m, i) == [g \in DOMAIN m |-> m[g][i]]

Failed == {i \in DOMAIN futures : futures[i].outcome.tag = "raise"}

NumLoci == Len(GeneLocSet.regions)

\* C1: column i of the matrix compute_batch returns is the RP vector computed
\* for input file i, whatever the order in which the tasks completed.
C1_ColumnOrder ==
    pc = "returned" =>
        \A i \in 1..N :
            /\ Ok(ColumnOf(returned, i)) = futures[i].outcome
            /\ Ok(ColumnOf(returned, i)) \in
                   compute_helper(bed_files[i], GeneLocSet, decay)

\* a matrix was returned although a later file finished before an earlier one
\* and the columns differ
C1_Witness ==
    /\ pc = "returned"
    /\ reordered
    /\ N >= 2
    /\ ColumnOf(returned, 1) # ColumnOf(returned, 2)

\* C2: once a task has raised, compute_batch returns no matrix and ends with
\* the error of a failed task; every sample is submitted exactly once.
C2_FailFast ==
    /\ \A i \in 1..N : submits[i] = IF i <= Len(futures) THEN 1 ELSE 0
    /\ pc \notin {"start", "submit"} => Len(futures) = N
    /\ Failed # {} =>
        /\ returned = None
        /\ pc \notin {"stack", "returned"}
        /\ pc = "raised" => \E i \in Failed : error = futures[i].outcome

\* the batch ended with the error of the one failed task, the others succeeded
C2_Witness ==
    /\ pc = "raised"
    /\ N >= 2
    /\ Cardinality(Failed) = 1
    /\ \E i \in Failed : error = futures[i].outcome
    /\ \A i \in 1..N : submits[i] = 1

\* C3: the matrix is assembled and returned only after all N tasks completed
\* and every result slot holds its task's result; nothing is visible before.
C3_Barrier ==
    /\ pc \in {"stack", "returned"} =>
        /\ Len(futures) = N
        /\ AllFinished
        /\ \A i \in 1..N : results[i] # None /\ Ok(results[i]) = futures[i].outcome
    /\ returned # None => pc = "returned"

C3_Witness ==
    /\ pc = "returned"
    /\ N >= 2
    /\ \A i \in 1..N : Ok(results[i]) = futures[i].outcome

\* C4 (as amended): a sample file of zero bytes yields the all-zero vector of
\* length number-of-loci, as a normal result, in compute_helper and in its
\* column of the batch matrix.
C4_EmptyFileZeros ==
    \A i \in DOMAIN futures :
        (FileExists(bed_files[i]) /\ FileSize(bed_files[i]) = 0) =>
            /\ futures[i].state = "finished" =>
                   futures[i].outcome = Ok(Zeros(NumLoci))
            /\ pc = "returned" => ColumnOf(returned, i) = Zeros(NumLoci)

C4_Witness ==
    /\ pc = "returned"
    /\ N = 3
    /\ bed_files[2] = "empty"
    /\ ColumnOf(returned, 2) = Zeros(NumLoci)
    /\ ColumnOf(returned, 1) # Zeros(NumLoci)

\* C4 (as stated): every sample file that contains zero intervals yields the
\* all-zero vector as a normal result.
C4_ZeroIntervalsZeros ==
    \A i \in DOMAIN futures :
        (FileExists(bed_files[i]) /\ FilePeaks(bed_files[i]) = {}
            /\ futures[i].state = "finished") =>
                futures[i].outcome = Ok(Zeros(NumLoci))

TaskFields == {"bed_file", "decay"}

\* C5: every worker runs the initializer once, at its start, and holds the
\* locus set from then on unchanged; every task carries only a file path and
\* a decay value.
C5_LocusSetOncePerWorker ==
    /\ [](\A w \in Workers :
            /\ init_calls[w] = IF worker[w].state = "down" THEN 0 ELSE 1
            /\ global_gene_loc_set[w] =
                   IF worker[w].state = "down" THEN None ELSE GeneLocSet
            /\ worker[w].state = "busy" => DOMAIN worker[w].task = TaskFields)
    /\ [](\A k \in 1..Len(call_queue) : DOMAIN call_queue[k].task = TaskFields)
    /\ [][\A w \in Workers :
            global_gene_loc_set[w] # None =>
                global_gene_loc_set'[w] = global_gene_loc_set[w]]_vars

\* one worker alone ran three tasks after a single initializer call
C5_Witness ==
    /\ Len(futures) = 3
    /\ AllFinished
    /\ \E w \in Workers :
        /\ init_calls[w] = 1
        /\ global_gene_loc_set[w] = GeneLocSet
        /\ \A v \in Workers \ {w} : worker[v].state = "down"

----------------------------------------------------------------------------
(* Interval files of the synthesis pipeline.  A file is the sequence of its *)
(* records, sorted by start as bedtools multiinter requires, no two records *)
(* of one file overlapping (they may abut).                                 *)

MaxCoord == 3
MaxGenFiles == 3
MaxRecords == 2
MaxWidth == 3

Chrom == "chr1"

Max(a, b) == IF a >= b THEN a ELSE b
Min(a, b) == IF a <= b THEN a ELSE b

Intervals ==
    {[chrom |-> Chrom, start |-> q[1], end |-> q[2]] :
        q \in {x \in (0..MaxCoord) \X (0..MaxCoord) : x[1] < x[2]}}

IntervalFiles ==
    {<<>>} \cup {<<a>> : a \in Intervals}
           \cup {p \in Intervals \X Intervals : p[1].end <= p[2].start}

\* weight vectors for n files: all ones, and weight i for file i
List(v) == [tag |-> "list", val |-> v]

WeightChoices(n) == {None, List([i \in 1..n |-> 1]), List([i \in 1..n |-> i])}

MergeDistances == {0, 1}

\* the two one-row files of the worked example, and its width
ExampleA == <<[chrom |-> Chrom, start |-> 100, end |-> 200]>>
ExampleB == <<[chrom |-> Chrom, start |-> 150, end |-> 250]>>
ExampleFiles == <<ExampleA, ExampleB>>

\* standardize.width: 0 stands for None
Widths == (0..MaxWidth) \cup {100}

\* ascending sequence of a finite set of integers
RECURSIVE SortedSeq(_)
SortedSeq(S) ==
    IF S = {} THEN <<>>
    ELSE LET m == CHOOSE x \in S : \A y \in S : x <= y
         IN <<m>> \o SortedSeq(S \ {m})

----------------------------------------------------------------------------
(* generation/helpers.py *)

Breakpoints(files) ==
    UNION {UNION {{files[i][k].start, files[i][k].end} :
                     k \in DOMAIN files[i]} : i \in DOMAIN files}

Covers(file, s, e) ==
    \E k \in DOMAIN file : file[k].start <= s /\ e <= file[k].end

\* bedtools multiinter: one row per elementary interval covered by some file,
\* with a 0/1 column per file
multiinter(files) ==
    LET b == SortedSeq(Breakpoints(files))
        all == [k \in 1..(Len(b) - 1) |->
                   [chrom |-> Chrom, start |-> b[k], end |-> b[k + 1],
                    file |-> [i \in DOMAIN files |->
                                 IF Covers(files[i], b[k], b[k + 1])
                                 THEN 1 ELSE 0]]]
        covered(r) == \E i \in DOMAIN r.file : r.file[i] = 1
    IN SelectSeq(all, covered)

\* bedtools merge -d d -c <file columns> -o max: a row joins the current run
\* when it starts no further than d past the run's end
RECURSIVE MergeFrom(_, _, _)
MergeFrom(cur, rest, d) ==
    IF rest = <<>> THEN <<cur>>
    ELSE LET nx == Head(rest) IN
         IF nx.chrom = cur.chrom /\ nx.start <= cur.end + d
         THEN MergeFrom([cur EXCEPT
                            !.end = Max(cur.end, nx.end),
                            !.file = [i \in DOMAIN cur.file |->
                                         Max(cur.file[i], nx.file[i])]],
                        Tail(rest), d)
         ELSE <<cur>> \o MergeFrom(nx, Tail(rest), d)

merge_wide(rows, d) ==
    IF rows = <<>> THEN <<>> ELSE MergeFrom(Head(rows), Tail(rows), d + 1)

merge(rows, d) ==
    IF rows = <<>> THEN <<>> ELSE MergeFrom(Head(rows), Tail(rows), d)

multi_intersect(files, d) == merge(multiinter(files), d)

\* the awk program: idx is advanced by the first record of each file
\* (FNR==1), so a file without records does not advance it
AwkIdx(files, i) == Cardinality({j \in 1..i : files[j] # <<>>}) - 1

\* bedtools sort: by chrom, then start
RECURSIVE SortRows(_)
SortRows(S) ==
    IF S = {} THEN <<>>
    ELSE LET m == CHOOSE x \in S : \A y \in S :
                     \/ x.start < y.start
                     \/ x.start = y.start /\ x.end < y.end
                     \/ x.start = y.start /\ x.end = y.end /\ x.idx <= y.idx
         IN <<m>> \o SortRows(S \ {m})

\* concatenate: every record of every file with its file's idx, sorted
concatenate(files) ==
    SortRows(UNION {{[chrom |-> files[i][k].chrom, start |-> files[i][k].start,
                      end |-> files[i][k].end, idx |-> AwkIdx(files, i)] :
                        k \in DOMAIN files[i]} : i \in DOMAIN files})

Overlap(a, b) ==
    IF a.chrom = b.chrom THEN Min(a.end, b.end) - Max(a.start, b.start) ELSE 0

WithOriginal(a, b) ==
    [chrom |-> a.chrom, start |-> a.start, end |-> a.end, file |-> a.file,
     chrom_original |-> b.chrom, start_original |-> b.start,
     end_original |-> b.end, idx |-> b.idx, overlap |-> Overlap(a, b)]

\* bedtools intersect -wo: one row per (merged interval, overlapping record)
RECURSIVE intersect_wo(_, _)
intersect_wo(as, bs) ==
    IF as = <<>> THEN <<>>
    ELSE LET a == Head(as)
             hit(b) == Overlap(a, b) > 0
             hits == SelectSeq(bs, hit)
         IN [k \in 1..Len(hits) |-> WithOriginal(a, hits[k])]
                \o intersect_wo(Tail(as), bs)

DotScaled(v, w) == Len(v) * SumSeq([i \in DOMAIN v |-> v[i] * w[i]])

Dot(v, w) == SumSeq([i \in DOMAIN v |-> v[i] * w[i]])

RescaleNoShift(v) == 2 * v

\* df[file_columns] = 2 * df[file_columns] - 1
Rescale(v) == 2 * v - 1

\* compute_weighted_sum.  A table without rows comes from bedtool_to_dataframe
\* as a frame without columns, and selecting the file columns fails on it.
compute_weighted_sum(rows, w) ==
    IF rows = <<>> THEN Raise("KeyError") ELSE
    LET scaled == [k \in DOMAIN rows |->
                      [rows[k] EXCEPT !.file =
                          [i \in DOMAIN rows[k].file |-> Rescale(rows[k].file[i])]]]
    IN IF w = None
       THEN Ok([k \in DOMAIN scaled |->
                   scaled[k] @@ [weighted_sum |-> SumSeq(scaled[k].file)]])
       ELSE IF \E k \in DOMAIN scaled : Len(scaled[k].file) # Len(w.val)
       THEN Raise("ValueError")
       ELSE Ok([k \in DOMAIN scaled |->
                   scaled[k] @@ [weighted_sum |-> Dot(scaled[k].file, w.val),
                                 weight |-> w.val]])

Key(r) == <<r.chrom, r.start, r.end>>

\* drop_duplicates(["chrom", "start", "end"]): the first row of each key
drop_duplicates(rows) ==
    LET keep == {k \in DOMAIN rows :
                    \A j \in 1..(k - 1) : Key(rows[j]) # Key(rows[k])}
        idxs == SortedSeq(keep)
    IN [n \in 1..Len(idxs) |-> rows[idxs[n]]]

\* a midpoint is a float; it is kept exactly as num / den
Frac(n, d) == [num |-> n, den |-> d]

\* compute_weighted_midpoints
compute_weighted_midpoints(rows) ==
    LET weight_columns == {rows[k].idx : k \in DOMAIN rows}
        mid(k) == Frac(rows[k].start_original + rows[k].end_original, 2)
        melted == {[row |-> q[1], variable |-> q[2],
                    value |-> rows[q[1]].weight[q[2] + 1]] :
                      q \in (DOMAIN rows) \X weight_columns}
        kept == {m \in melted : m.variable = rows[m.row].idx}
        group(key) == {m \in kept : Key(rows[m.row]) = key}
        sum_weighted_terms(key) ==
            SumSet(group(key), [m \in group(key) |-> mid(m.row).num * m.value])
        sum_weights(key) ==
            SumSet(group(key), [m \in group(key) |-> m.value])
        dd == drop_duplicates(rows)
    IN [k \in DOMAIN dd |->
           dd[k] @@ [midpoint |-> Frac(sum_weighted_terms(Key(dd[k])),
                                       2 * sum_weights(Key(dd[k])))]]

\* compute_midpoints; the weighted form needs the provenance and weight columns
compute_midpoints(rows, wt, has_original, has_weights) ==
    IF wt
    THEN IF has_original /\ has_weights
         THEN Ok(compute_weighted_midpoints(rows))
         ELSE Raise("KeyError")
    ELSE LET dd == drop_duplicates(rows)
         IN Ok([k \in DOMAIN dd |->
                   dd[k] @@ [midpoint |-> Frac(dd[k].start + dd[k].end, 2)]])

\* np.maximum(midpoint - half_width, 0).astype(int)
FixedStart(m, half_width) ==
    IF m.num - half_width * m.den < 0 THEN 0
    ELSE (m.num - half_width * m.den) \div m.den

\* (midpoint + half_width).astype(int)
FixedEnd(m, half_width) == (m.num + half_width * m.den) \div m.den

HalfWidthWhole(w) == w

\* half_width = width // 2
HalfWidth(w) == w \div 2

fixed_widths(rows, fixed_width) ==
    [k \in DOMAIN rows |->
        [rows[k] EXCEPT
            !.start = FixedStart(rows[k].midpoint, HalfWidth(fixed_width)),
            !.end = FixedEnd(rows[k].midpoint, HalfWidth(fixed_width))]]

adjust_intervals_to_fixed_width(rows, w) ==
    [k \in DOMAIN rows |->
        [rows[k] EXCEPT
            !.start = FixedStart(rows[k].midpoint, HalfWidth(w)),
            !.end = FixedEnd(rows[k].midpoint, HalfWidth(w))]]

----------------------------------------------------------------------------
(* generation/synthesize.py *)

\* the table synthesize hands to compute_weighted_sum
synthesize_table(files, d, report) ==
    LET result == multi_intersect(files, d)
    IN IF report THEN intersect_wo(result, concatenate(files)) ELSE result

synthesize(files, w, d, report) ==
    compute_weighted_sum(synthesize_table(files, d, report), w)

standardize(rows, wt, w, has_original, has_weights) ==
    LET m == compute_midpoints(rows, wt, has_original, has_weights) IN
    IF m.tag = "raise" THEN m
    ELSE IF w # 0 THEN Ok(adjust_intervals_to_fixed_width(m.val, w))
    ELSE m

InitGen ==
    /\ bed_files = <<>>
    /\ decay = 2
    /\ pc = "start"
    /\ results = <<>>
    /\ futures = <<>>
    /\ call_queue = <<>>
    /\ global_gene_loc_set = [w \in Workers |-> None]
    /\ worker = [w \in Workers |-> [state |-> "down", id |-> 0]]
    /\ init_calls = [w \in Workers |-> 0]
    /\ submits = <<>>
    /\ yielded = {}
    /\ returned = None
    /\ error = None
    /\ reordered = FALSE
    /\ file_paths \in {ExampleFiles}
           \cup UNION {[1..n -> IntervalFiles] : n \in 1..MaxGenFiles}
    /\ SumSeq([i \in DOMAIN file_paths |-> Len(file_paths[i])]) <= MaxRecords
    /\ weights \in WeightChoices(Len(file_paths))
    /\ merge_distance \in MergeDistances
    /\ report_original_peaks \in BOOLEAN
    /\ gen_pc = "input"
    /\ df = None
    /\ weighted = FALSE
    /\ width = 0
    /\ std = None
    /\ SamplesIdle
    /\ CallsIdle
    /\ KernelIdle

Synthesize ==
    /\ gen_pc = "input"
    /\ df' = synthesize(file_paths, weights, merge_distance, report_original_peaks)
    /\ gen_pc' = IF df'.tag = "raise" THEN "failed" ELSE "synthesized"
    /\ UNCHANGED <<batch_vars, samples_vars, call_vars, kernel, file_paths, weights, merge_distance,
                   report_original_peaks, weighted, width, std>>

Standardize ==
    /\ gen_pc = "synthesized"
    /\ \E wt \in BOOLEAN, w \in Widths :
        /\ weighted' = wt
        /\ width' = w
        /\ std' = standardize(df.val, wt, w, report_original_peaks, weights # None)
    /\ gen_pc' = IF std'.tag = "raise" THEN "failed" ELSE "standardized"
    /\ UNCHANGED <<batch_vars, samples_vars, call_vars, kernel, file_paths, weights, merge_distance,
                   report_original_peaks, df>>

NextGen ==
    \/ Synthesize
    \/ Standardize

SpecGen == InitGen /\ [][NextGen]_vars

----------------------------------------------------------------------------
(* Properties of the synthesis pipeline *)

NFiles == Len(file_paths)

\* C6: after re-centering to width W every row has end - start = W, except
\* rows whose midpoint is within W/2 of coordinate 0, which have start = 0 and
\* end - start < W; start is never negative.
C6_FixedWidth ==
    (gen_pc = "standardized" /\ width # 0) =>
        \A k \in DOMAIN std.val :
            LET r == std.val[k]
                m == r.midpoint
            IN /\ r.start >= 0
               /\ IF 2 * m.num < width * m.den
                  THEN r.start = 0 /\ r.end - r.start < width
                  ELSE r.end - r.start = width

ThreeColumns(rows) ==
    [k \in DOMAIN rows |->
        [chrom |-> rows[k].chrom, start |-> rows[k].start, end |-> rows[k].end]]

SingleFileRun ==
    /\ gen_pc # "input"
    /\ NFiles = 1
    /\ file_paths[1] # <<>>
    /\ merge_distance = 0
    /\ weights = None

RoundTrips ==
    /\ df.tag = "ok"
    /\ ThreeColumns(df.val) = file_paths[1]
    /\ \A k \in DOMAIN df.val : df.val[k].weighted_sum = 1

Separated(file) ==
    \A k \in 1..(Len(file) - 1) : file[k].end < file[k + 1].start

\* C7 (as stated): synthesizing a single file with merge distance 0 and no
\* weights returns exactly the file's intervals, one row each, support 1.
C7_RoundTrip == SingleFileRun => RoundTrips

\* C7 (as amended): the same, for a single non-empty sorted file in which no
\* two intervals overlap or abut.
C7_RoundTripSeparated ==
    (SingleFileRun /\ Separated(file_paths[1])) => RoundTrips

C7_Witness ==
    /\ SingleFileRun
    /\ Len(file_paths[1]) = 2
    /\ Separated(file_paths[1])
    /\ RoundTrips

\* the table handed to compute_weighted_sum
RawTable ==
    synthesize_table(file_paths, merge_distance, report_original_peaks)

\* synthesize has just returned a table
Synthesized == gen_pc = "synthesized"

UniformWeights ==
    /\ weights # None
    /\ \A i \in DOMAIN weights.val : weights.val[i] = 1

UnweightedTable == compute_weighted_sum(RawTable, None).val

\* C8 (as stated): the support with uniform weights 1 and the support with no
\* weights differ by the constant factor N.
C8_UniformScaledByN ==
    (Synthesized /\ UniformWeights) =>
        LET u == UnweightedTable IN
        \/ \A k \in DOMAIN df.val :
              df.val[k].weighted_sum = NFiles * u[k].weighted_sum
        \/ \A k \in DOMAIN df.val :
              u[k].weighted_sum = NFiles * df.val[k].weighted_sum

\* C8 (as amended): the support with uniform weights 1 equals the support
\* with no weights, row by row.
C8_UniformEqualsUnweighted ==
    (Synthesized /\ UniformWeights) =>
        LET u == UnweightedTable IN
        /\ Len(df.val) = Len(u)
        /\ \A k \in DOMAIN df.val : df.val[k].weighted_sum = u[k].weighted_sum

C8_Witness ==
    /\ Synthesized
    /\ UniformWeights
    /\ NFiles >= 2
    /\ \E k \in DOMAIN df.val :
          df.val[k].weighted_sum # 0
              /\ df.val[k].weighted_sum = UnweightedTable[k].weighted_sum

\* C9: every indicator v is rescaled to 2v - 1; the support of a row is the
\* sum of its rescaled indicators without weights, and the sum of weight times
\* rescaled indicator with weights, and then every row also carries the N
\* weights.
C9_RescaleAndSum ==
    Synthesized =>
        LET raw == RawTable IN
        /\ Len(df.val) = Len(raw)
        /\ \A k \in DOMAIN df.val :
            LET v == raw[k].file
                r == df.val[k]
            IN /\ DOMAIN v = 1..NFiles
               /\ \A i \in 1..NFiles : v[i] \in {0, 1} /\ r.file[i] = 2 * v[i] - 1
               /\ IF weights = None
                  THEN /\ r.weighted_sum =
                            SumSet(1..NFiles, [i \in 1..NFiles |-> 2 * v[i] - 1])
                       /\ "weight" \notin DOMAIN r
                  ELSE /\ r.weighted_sum =
                            SumSet(1..NFiles,
                                   [i \in 1..NFiles |->
                                       weights.val[i] * (2 * v[i] - 1)])
                       /\ r.weight = weights.val
                       /\ Len(r.weight) = NFiles

C9_Witness ==
    /\ Synthesized
    /\ NFiles = 3
    /\ weights # None
    /\ weights.val = <<1, 2, 3>>
    /\ \E k \in DOMAIN df.val :
          df.val[k].file = <<1, -1, 1>> /\ df.val[k].weighted_sum = 2

\* the records of the input files that overlap a merged interval
Contributors(r) ==
    UNION {{<<i, k>> : k \in {j \in DOMAIN file_paths[i] :
                                 Overlap(r, file_paths[i][j]) > 0}} :
              i \in DOMAIN file_paths}

\* C10: weighted standardization has exactly one row per merged interval,
\* whose midpoint is the sum over the contributing original peaks of (peak
\* midpoint * weight of the peak's source file) over the sum of those weights.
C10_WeightedMidpoint ==
    (gen_pc = "standardized" /\ weighted /\ width = 0) =>
        LET merged == multi_intersect(file_paths, merge_distance) IN
        /\ Len(std.val) = Len(merged)
        /\ \A k \in DOMAIN merged :
            LET c == Contributors(merged[k])
                num == SumSet(c, [q \in c |->
                          (file_paths[q[1]][q[2]].start + file_paths[q[1]][q[2]].end)
                              * weights.val[q[1]]])
                den == 2 * SumSet(c, [q \in c |-> weights.val[q[1]]])
            IN /\ Key(std.val[k]) = Key(merged[k])
               /\ std.val[k].midpoint.num * den = num * std.val[k].midpoint.den

ExampleRun ==
    /\ file_paths = ExampleFiles
    /\ merge_distance = 0
    /\ weights = None

\* C11: synthesizing A = (chr1, 100, 200) and B = (chr1, 150, 250) with merge
\* distance 0 and no weights gives the one consensus interval (chr1, 100, 250)
\* supported by both inputs with support 2; its unweighted midpoint is 175 and
\* standardizing to width 100 gives (chr1, 125, 225).
C11_Example ==
    ExampleRun =>
        /\ gen_pc # "input" =>
            /\ df.tag = "ok"
            /\ {Key(df.val[k]) : k \in DOMAIN df.val} = {<<Chrom, 100, 250>>}
            /\ ~report_original_peaks => Len(df.val) = 1
            /\ \A k \in DOMAIN df.val :
                   /\ multi_intersect(file_paths, 0)[1].file = <<1, 1>>
                   /\ df.val[k].file = <<1, 1>>
                   /\ df.val[k].weighted_sum = 2
        /\ (gen_pc = "standardized" /\ ~weighted) =>
            /\ Len(std.val) = 1
            /\ std.val[1].midpoint.num = 175 * std.val[1].midpoint.den
            /\ width = 0 => Key(std.val[1]) = <<Chrom, 100, 250>>
            /\ width = 100 => Key(std.val[1]) = <<Chrom, 125, 225>>

C11_Witness ==
    /\ ExampleRun
    /\ ~report_original_peaks
    /\ gen_pc = "standardized"
    /\ ~weighted
    /\ width = 100
    /\ Key(std.val[1]) = <<Chrom, 125, 225>>
    /\ df.val[1].weighted_sum = 2

----------------------------------------------------------------------------
(* generation/test_samples.py *)

\* a BED3 file for the sample generator: up to two intervals, in any order,
\* overlapping or not
SampleIntervalFiles ==
    {<<>>} \cup {<<a>> : a \in Intervals}
           \cup {<<p[1], p[2]>> : p \in Intervals \X Intervals}

\* bedtools widens a zero-length record by one base on each side before it
\* looks for overlaps
Padded(a) ==
    IF a.start = a.end THEN [a EXCEPT !.start = a.start - 1, !.end = a.end + 1]
    ELSE a

\* the overlap test of bedtools subtract
Hits(a, b) == Overlap(Padded(a), Padded(b)) > 0

\* BedTool.subtract(b, A=True): drop every record of a that any record of b hits
subtract_A(as, bs) ==
    LET keep(a) == \A k \in DOMAIN bs : ~Hits(a, bs[k])
    IN SelectSeq(as, keep)

\* to_dataframe, compute_midpoints, adjust_intervals_to_fixed_width,
\* from_dataframe; a table without rows is a frame without columns, on which
\* compute_midpoints fails
recenter(rows, w) ==
    IF rows = <<>> THEN Raise("KeyError")
    ELSE Ok(adjust_intervals_to_fixed_width(
                compute_midpoints(ThreeColumns(rows), FALSE, FALSE, FALSE).val, w))

generate_positive_samples(target, w) ==
    IF w # 0 THEN recenter(target, w) ELSE Ok(target)

generate_negative_samples_once(query, target, positive, w) ==
    LET first == subtract_A(subtract_A(query, target), positive)
    IN IF w # 0 THEN recenter(first, w) ELSE Ok(first)

generate_negative_samples(query, target, positive, w) ==
    LET first == subtract_A(subtract_A(query, target), positive)
    IN IF w # 0
       THEN LET r == recenter(first, w)
            IN IF r.tag = "raise" THEN r
               ELSE Ok(subtract_A(subtract_A(r.val, target), positive))
       ELSE Ok(first)

BatchIdle ==
    /\ bed_files = <<>>
    /\ decay = 2
    /\ pc = "start"
    /\ results = <<>>
    /\ futures = <<>>
    /\ call_queue = <<>>
    /\ global_gene_loc_set = [w \in Workers |-> None]
    /\ worker = [w \in Workers |-> [state |-> "down", id |-> 0]]
    /\ init_calls = [w \in Workers |-> 0]
    /\ submits = <<>>
    /\ yielded = {}
    /\ returned = None
    /\ error = None
    /\ reordered = FALSE

GenIdle ==
    /\ file_paths = <<>>
    /\ weights = None
    /\ merge_distance = 0
    /\ report_original_peaks = FALSE
    /\ gen_pc = "idle"
    /\ df = None
    /\ weighted = FALSE
    /\ width = 0
    /\ std = None

InitSamples ==
    /\ BatchIdle
    /\ GenIdle
    /\ CallsIdle
    /\ KernelIdle
    /\ query_file \in SampleIntervalFiles
    /\ target_file \in SampleIntervalFiles
    /\ sample_width \in 0..MaxWidth
    /\ positive_samples = None
    /\ negative_samples = None
    /\ samples_pc = "input"

\* generate_test_samples: positive_samples = generate_positive_samples(...)
GeneratePositive ==
    /\ samples_pc = "input"
    /\ positive_samples' = generate_positive_samples(target_file, sample_width)
    /\ samples_pc' = IF positive_samples'.tag = "raise" THEN "failed" ELSE "positive"
    /\ UNCHANGED <<batch_vars, gen_vars, call_vars, kernel, query_file, target_file,
                   sample_width, negative_samples>>

\* generate_test_samples: negative_samples = generate_negative_samples(...)
GenerateNegative ==
    /\ samples_pc = "positive"
    /\ negative_samples' =
          generate_negative_samples(query_file, target_file,
                                    positive_samples.val, sample_width)
    /\ samples_pc' = IF negative_samples'.tag = "raise" THEN "failed" ELSE "negative"
    /\ UNCHANGED <<batch_vars, gen_vars, call_vars, kernel, query_file, target_file,
                   sample_width, positive_samples>>

NextSamples ==
    \/ GeneratePositive
    \/ GenerateNegative

SpecSamples == InitSamples /\ [][NextSamples]_vars

----------------------------------------------------------------------------
(* Properties of the test-sample generator *)

\* a and b share at least one base
Overlaps(a, b) == Overlap(a, b) > 0

Excluded(rows) ==
    \A k \in DOMAIN rows :
        /\ \A t \in DOMAIN target_file : ~Overlaps(rows[k], target_file[t])
        /\ \A q \in DOMAIN positive_samples.val :
               ~Overlaps(rows[k], positive_samples.val[q])

\* C12: no interval generate_negative_samples returns overlaps a target
\* interval or a positive-sample interval, with and without a width; without a
\* width the negatives are exactly the query intervals that overlap none.
C12_NegativesExcluded ==
    samples_pc = "negative" =>
        /\ Excluded(negative_samples.val)
        /\ sample_width = 0 =>
               LET free(a) == \A t \in DOMAIN target_file :
                                  ~Overlaps(a, target_file[t])
               IN negative_samples.val = SelectSeq(query_file, free)

\* a negative survived although re-centering moved another one back onto an
\* excluded interval
C12_Witness ==
    /\ samples_pc = "negative"
    /\ sample_width # 0
    /\ negative_samples.val # <<>>
    /\ ~Excluded(generate_negative_samples_once(
                     query_file, target_file, positive_samples.val,
                     sample_width).val)

----------------------------------------------------------------------------
(* Temporary resources and validation: helpers.concatenate, synthesize,     *)
(* generate_test_samples, embedding/run_script_wrapper.py,                  *)
(* utils/download_experiment.py, rp_model/load_gene_loc_set.py.  A function *)
(* is the sequence of its steps; a step may open or close a with block, run *)
(* a costly operation, or check a condition.                                *)

Step(op, res, work, makes, ok, can_fail, err) ==
    [op |-> op, res |-> res, work |-> work, makes |-> makes, ok |-> ok,
     can_fail |-> can_fail, err |-> err]

\* with tempfile.NamedTemporaryFile() / TemporaryDirectory() as res:
Open(res) == Step("open", res, "", {}, TRUE, TRUE, "OSError")

\* leaving the with block of res
Close(res) == Step("close", res, "", {}, TRUE, FALSE, "")

\* if not ok: raise err
Check(ok, err) == Step("check", "", "", {}, ok, FALSE, err)

\* an operation that does work, writes the pybedtools temporary files in
\* makes, needs ok to hold, and can fail with err
Run(work, makes, ok, err) == Step("run", "", work, makes, ok, TRUE, err)

multi_intersect_steps ==
    << Run("multi_intersect", {"pybedtools.multiinter.tmp"}, TRUE, "BEDToolsError"),
       Run("merge", {"pybedtools.merge.tmp"}, TRUE, "BEDToolsError") >>

concatenate_steps ==
    << Open("concatenate.temp_file"),
       Run("awk", {}, TRUE, "CalledProcessError"),
       Run("sort", {"pybedtools.sort.tmp"}, TRUE, "BEDToolsError"),
       Close("concatenate.temp_file") >>

synthesize_steps(report) ==
    multi_intersect_steps
    \o (IF report = "report_original_peaks"
        THEN concatenate_steps
             \o << Run("intersect", {"pybedtools.intersect.tmp"}, TRUE,
                       "BEDToolsError") >>
        ELSE <<>>)
    \o << Run("bedtool_to_dataframe", {}, TRUE, "ParserError"),
          Run("compute_weighted_sum", {}, TRUE, "KeyError") >>

generate_test_samples_steps(w) ==
    (IF w = "width"
     THEN << Run("positive.to_dataframe", {}, TRUE, "KeyError"),
             Run("positive.from_dataframe", {"pybedtools.positive.tmp"}, TRUE,
                 "OSError") >>
     ELSE <<>>)
    \o << Run("subtract", {"pybedtools.subtract1.tmp", "pybedtools.subtract2.tmp"},
              TRUE, "BEDToolsError") >>
    \o (IF w = "width"
        THEN << Run("negative.to_dataframe", {}, TRUE, "KeyError"),
                Run("negative.from_dataframe", {"pybedtools.negative.tmp"}, TRUE,
                    "OSError"),
                Run("subtract_again", {"pybedtools.subtract3.tmp",
                                       "pybedtools.subtract4.tmp"},
                    TRUE, "BEDToolsError") >>
        ELSE <<>>)
    \o << Run("sort_samples", {"pybedtools.sort1.tmp", "pybedtools.sort2.tmp"},
              TRUE, "BEDToolsError"),
          Run("multi_intersect", {"pybedtools.multiinter.tmp"}, TRUE,
              "BEDToolsError"),
          Run("to_dataframe", {}, TRUE, "ParserError") >>

valid_methods ==
    {"CCAIntegration", "HarmonyIntegration", "JointPCAIntegration",
     "RPCAIntegration", "FastMNNIntegration", "none"}

Methods == valid_methods \cup {"PCA", ""}

run_script_wrapper_late_check(method) ==
    << Open("temp_dir"),
       Run("rp_matrix.to_parquet", {}, TRUE, "OSError"),
       Check(method \in valid_methods, "ValueError"),
       Run("metadata.to_parquet", {}, TRUE, "OSError"),
       Run("run_script", {}, TRUE, "CalledProcessError"),
       Run("read_parquet", {}, TRUE, "FileNotFoundError"),
       Close("temp_dir"),
       Run("set_index", {}, TRUE, "KeyError") >>

run_script_wrapper_steps(method) ==
    << Check(method \in valid_methods, "ValueError"),
       Open("temp_dir"),
       Run("rp_matrix.to_parquet", {}, TRUE, "OSError"),
       Run("metadata.to_parquet", {}, TRUE, "OSError"),
       Run("run_script", {}, TRUE, "CalledProcessError"),
       Run("read_parquet", {}, TRUE, "FileNotFoundError"),
       Close("temp_dir"),
       Run("set_index", {}, TRUE, "KeyError") >>

\* experiment ids: an ENCODE accession, a ChIP-Atlas id with its threshold,
\* and an id that is neither
ExperimentIds == {"ENCFF001ABC", "SRX100.05", "SRX100"}

HasUrl(id) == id \in {"ENCFF001ABC", "SRX100.05"}

download_experiment_steps(id) ==
    << Check(HasUrl(id), "IndexError"),
       Open("curl_and_sort.temp_file"),
       Run("curl", {}, TRUE, "CalledProcessError"),
       Run("sortBed", {}, TRUE, "CalledProcessError"),
       Close("curl_and_sort.temp_file") >>

\* the packaged assets: a chromosome-length table and a TSS table per
\* supported genome build
SupportedGenomes == {"hg38", "mm10"}

Assets == SupportedGenomes \X {".len", "_refseq_TSS.bed"}

Genomes == SupportedGenomes \cup {"hg19", "mm9"}

load_gene_loc_set_steps(genome_name) ==
    << Run("read_csv(genome_file)", {}, <<genome_name, ".len">> \in Assets,
           "FileNotFoundError"),
       Run("Genome", {}, TRUE, "ValueError"),
       Run("read_bedfile(refseq_file)", {},
           <<genome_name, "_refseq_TSS.bed">> \in Assets, "FileNotFoundError"),
       Run("RegionSet", {}, TRUE, "ValueError") >>

Calls ==
    {[fn |-> "concatenate", arg |-> ""]}
    \cup {[fn |-> "synthesize", arg |-> r] : r \in {"report_original_peaks", ""}}
    \cup {[fn |-> "generate_test_samples", arg |-> w] : w \in {"width", ""}}
    \cup {[fn |-> "run_script_wrapper", arg |-> m] : m \in Methods}
    \cup {[fn |-> "download_experiment", arg |-> e] : e \in ExperimentIds}
    \cup {[fn |-> "load_gene_loc_set", arg |-> g] : g \in Genomes}

StepsOf(c) ==
    CASE c.fn = "concatenate" -> concatenate_steps
      [] c.fn = "synthesize" -> synthesize_steps(c.arg)
      [] c.fn = "generate_test_samples" -> generate_test_samples_steps(c.arg)
      [] c.fn = "run_script_wrapper" -> run_script_wrapper_steps(c.arg)
      [] c.fn = "download_experiment" -> download_experiment_steps(c.arg)
      [] c.fn = "load_gene_loc_set" -> load_gene_loc_set_steps(c.arg)

\* the with blocks entered and not yet left before step i
OpenScopes(steps, i) ==
    {steps[j].res : j \in {k \in 1..(i - 1) : steps[k].op = "open"}}
    \ {steps[j].res : j \in {k \in 1..(i - 1) : steps[k].op = "close"}}

Running == call_pc \in 1..Len(StepsOf(call)) /\ call_result = None

InitCalls ==
    /\ BatchIdle
    /\ GenIdle
    /\ SamplesIdle
    /\ KernelIdle
    /\ call \in Calls
    /\ call_pc = 1
    /\ tmp_live = {}
    /\ tmp_created = {}
    /\ work_done = {}
    /\ call_result = None


\* the next step of the called function runs to its end
CallStep ==
    /\ Running
    /\ LET steps == StepsOf(call)
           st == steps[call_pc]
       IN /\ st.ok
          /\ tmp_live' = CASE st.op = "open" -> tmp_live \cup {st.res}
                           [] st.op = "close" -> tmp_live \ {st.res}
                           [] OTHER -> tmp_live \cup st.makes
          /\ tmp_created' = CASE st.op = "open" -> tmp_created \cup {st.res}
                              [] OTHER -> tmp_created \cup st.makes
          /\ work_done' = IF st.op = "run" THEN work_done \cup {st.work}
                          ELSE work_done
          /\ call_pc' = call_pc + 1
          /\ call_result' = IF call_pc = Len(steps) THEN Ok("returned") ELSE None
    /\ UNCHANGED <<batch_vars, gen_vars, samples_vars, kernel, call>>

\* the next step raises: the with blocks that are open are left, the files
\* pybedtools was writing may or may not be there, and the error reaches the
\* caller
CallFail ==
    /\ Running
    /\ LET steps == StepsOf(call)
           st == steps[call_pc]
       IN /\ ~st.ok \/ st.can_fail
          /\ \E left \in {{}, st.makes} :
                /\ tmp_live' = (tmp_live \cup left) \ OpenScopes(steps, call_pc)
                /\ tmp_created' = tmp_created \cup left
          /\ call_result' = Raise(st.err)
    /\ UNCHANGED <<batch_vars, gen_vars, samples_vars, kernel, call, call_pc, work_done>>

NextCalls ==
    \/ CallStep
    \/ CallFail

SpecCalls == InitCalls /\ [][NextCalls]_vars

----------------------------------------------------------------------------
(* Properties of temporary resources and validation *)

\* C13: when a pipeline function has exited, by return or by error, no
\* temporary file or directory it created is left.
C13_TempReleased == call_result # None => tmp_live = {}

----------------------------------------------------------------------------
(* The decay kernel on its own: one decay value and two distances *)

MaxDecay == 2
MaxDistance == 5

InitKernel ==
    /\ BatchIdle
    /\ GenIdle
    /\ SamplesIdle
    /\ CallsIdle
    /\ kernel \in {[decay |-> d, x |-> x, y |-> y, potential |-> None] :
                      d \in 1..MaxDecay, x \in 0..MaxDistance,
                      y \in 0..MaxDistance}

\* the kernel is evaluated at both distances
Evaluate ==
    /\ kernel.potential = None
    /\ kernel' = [kernel EXCEPT !.potential =
                      [x |-> Potential(kernel.x, kernel.decay),
                       y |-> Potential(kernel.y, kernel.decay)]]
    /\ UNCHANGED <<batch_vars, gen_vars, samples_vars, call_vars>>

NextKernel == Evaluate

SpecKernel == InitKernel /\ [][NextKernel]_vars

\* C15: for every decay d > 0 the kernel is 1 at distance 0, lies in (0, 1],
\* and is strictly smaller at a strictly larger distance.
C15_Kernel ==
    kernel.potential # None =>
        /\ kernel.x = 0 => kernel.potential.x = Scale
        /\ 0 < kernel.potential.x /\ kernel.potential.x <= Scale
        /\ kernel.x < kernel.y => kernel.potential.x > kernel.potential.y

C15_Witness ==
    /\ kernel.decay = 2
    /\ kernel.x = 0
    /\ kernel.y = 1
    /\ kernel.potential # None
    /\ kernel.potential.x = Scale
    /\ kernel.potential.y = 45

----------------------------------------------------------------------------
(* The locus set a task reads *)

\* C16: a worker that runs a task has run its initializer and holds the locus
\* set passed to compute_batch, never None, and no finished task ended with
\* the error that reading a None locus set raises, whichever worker ran it.
C16_TaskReadsLocusSet ==
    /\ \A w \in Workers :
           worker[w].state = "busy" =>
               /\ init_calls[w] >= 1
               /\ global_gene_loc_set[w] # None
               /\ global_gene_loc_set[w] = GeneLocSet
    /\ \A i \in DOMAIN futures :
           futures[i].state = "finished" =>
               futures[i].outcome # Raise("AttributeError")

\* both workers are running tasks, the first worker the later-submitted one,
\* after an earlier task has already finished
C16_Witness ==
    /\ \A w \in Workers :
           worker[w].state = "busy" /\ global_gene_loc_set[w] = GeneLocSet
    /\ worker[1].id > worker[2].id
    /\ \E i \in DOMAIN futures : futures[i].state = "finished"

====
